---- MODULE Spec2Model ----
(***************************************************************************)
(* A model of xmltree (src/src/lib.rs): the Element tree, the recursive    *)
(* builder behind Element::parse, the serializer behind Element::write and *)
(* the child lookup API.  The tokenizer (xml::reader::EventReader) and the *)
(* emitter (xml::writer::EventWriter) are the external collaborators: the  *)
(* tokenizer is a source of events chosen from a bounded alphabet, the     *)
(* emitter a sink of events that may fail on any call.                     *)
(***************************************************************************)
EXTENDS Integers, Sequences, FiniteSets, TLC

VARIABLES
    pass,      \* 1: parsing the tokenizer's stream; 2: re-parsing what write emitted
    phase,     \* "root": in the loop of parse; "body": in build; "done": parse returned
    stack,     \* the elem of every active call of build, outermost first
    result,    \* what parse returned
    pulled,    \* the events reader.next() has delivered to this parse, in order
    first,     \* the tree of pass 1, kept for the comparison after pass 2
    wresult,   \* what write returned
    emitted,   \* the events the emitter accepted from write
    fault,     \* the call on which the emitter of that write fails, and its error
    replay,    \* pass 2: the emitted events the second reader has not delivered yet
    tree,      \* the Element the child lookup API is called on
    op,        \* the last call on tree
    ret,       \* what that call returned
    before,    \* tree as it was when the call was made
    run        \* the take_child calls made in a row with one key, and their results

parseVars == <<pass, phase, stack, result, pulled, first, wresult, emitted, fault,
               replay>>
navVars == <<tree, op, ret, before, run>>
vars == <<pass, phase, stack, result, pulled, first, wresult, emitted, fault,
          replay, tree, op, ret, before, run>>

-----------------------------------------------------------------------------
(* Bounds of the model.                                                    *)

\* Events the tokenizer delivers before it must end the stream.
MaxEvents == 5
\* Attributes the start tags of one document carry in total.
MaxAttrs == 2
\* Nodes of a tree built through the public fields.
MaxNodes == 5
\* Nodes of such a tree when it is written.
MaxWritten == 4

-----------------------------------------------------------------------------
(* Option<T>, HashMap<String, String>, Namespace.                          *)

None == <<>>
Some(v) == <<v>>

Last(s) == s[Len(s)]
Front(s) == SubSeq(s, 1, Len(s) - 1)

EmptyMap == [k \in {} |-> ""]

\* HashMap::insert: the key's old value, if any, is replaced.
insert(m, k, v) ==
    [x \in (DOMAIN m) \cup {k} |-> IF x = k THEN v ELSE m[x]]

\* Namespace::empty(): no binding at all.
EmptyNamespace == {}
\* The bindings every scope of the tokenizer holds: "", xml and xmlns.
DefaultBindings == {<<"", "">>, <<"xml", "xml-uri">>, <<"xmlns", "xmlns-uri">>}
\* Namespace::is_essentially_empty: nothing but the default bindings.
is_essentially_empty(ns) == ns \subseteq DefaultBindings

-----------------------------------------------------------------------------
(* struct Element and enum ParseError.                                     *)

Element(prefix, namespace, namespaces, name, attributes, children, text) ==
    [prefix |-> prefix, namespace |-> namespace, namespaces |-> namespaces,
     name |-> name, attributes |-> attributes, children |-> children,
     text |-> text]

\* Element::new
new(name) == Element(None, None, None, name, EmptyMap, <<>>, None)

Ok(e) == [kind |-> "Ok", elem |-> e]
MalformedXml(e) == [kind |-> "MalformedXml", e |-> e]
CannotParse == [kind |-> "CannotParse"]
NoResult == [kind |-> "none"]

-----------------------------------------------------------------------------
(* The tokenizer's events (xml::reader::XmlEvent) and its errors.          *)

OwnedName(local_name, namespace, prefix) ==
    [local_name |-> local_name, namespace |-> namespace, prefix |-> prefix]
OwnedAttribute(k, v) == [name |-> OwnedName(k, None, None), value |-> v]

StartElement(name, attributes, namespace) ==
    [type |-> "StartElement", name |-> name, attributes |-> attributes,
     namespace |-> namespace]
EndElement(name) == [type |-> "EndElement", name |-> name]
Characters(s) == [type |-> "Characters", s |-> s]
CData(s) == [type |-> "CData", s |-> s]
Whitespace == [type |-> "Whitespace"]
Comment == [type |-> "Comment"]
StartDocument == [type |-> "StartDocument"]
EndDocument == [type |-> "EndDocument"]
ProcessingInstruction == [type |-> "ProcessingInstruction"]
Error(e) == [type |-> "Error", e |-> e]

\* The alphabet: the plain name a, and the name b under prefix p bound to u.
QNames == {OwnedName("a", None, None), OwnedName("b", Some("u"), Some("p"))}
\* The names of end tags: those, and b without its prefix.
EndNames == QNames \cup {OwnedName("b", None, None)}
ScopeOf(name) ==
    IF name.prefix = None THEN DefaultBindings
    ELSE DefaultBindings \cup {<<name.prefix[1], name.namespace[1]>>}
Keys == {"x", "y"}
\* The value of the i-th attribute of a start tag.
Vals == <<"1", "2", "3", "4">>
Texts == {"s", "t"}
Errors == {"e1", "e2"}

RECURSIVE SeqsUpTo(_, _)
SeqsUpTo(S, n) ==
    IF n <= 0 THEN {<<>>}
    ELSE LET shorter == SeqsUpTo(S, n - 1)
         IN  shorter \cup {Append(s, x) : s \in {t \in shorter : Len(t) = n - 1}, x \in S}

RECURSIVE AttrCount(_)
AttrCount(evs) ==
    IF evs = <<>> THEN 0
    ELSE (IF Head(evs).type = "StartElement" THEN Len(Head(evs).attributes) ELSE 0)
         + AttrCount(Tail(evs))

\* The attribute lists of at most n attributes: any keys, the i-th value Vals[i].
AttrLists(n) ==
    {[i \in 1..Len(ks) |-> OwnedAttribute(ks[i], Vals[i])] : ks \in SeqsUpTo(Keys, n)}

TerminalEvents == {EndDocument} \cup {Error(e) : e \in Errors}

\* A document whose start tags carry attributes is one event shorter.
MaxAttrEvents == MaxEvents - 1

\* A document of nothing but tags without attributes is one event longer.
MaxTagEvents == MaxEvents + 1
IsBareTag(ev) ==
    \/ ev.type = "EndElement"
    \/ ev.type = "StartElement" /\ ev.attributes = <<>>
OnlyTags(evs) == \A i \in 1..Len(evs) : IsBareTag(evs[i])
BareTags ==
    {StartElement(n, <<>>, ScopeOf(n)) : n \in QNames} \cup {EndElement(n) : n \in EndNames}

\* The stream is over once it delivered EndDocument or a lexical error.
Ended(evs) == evs # <<>> /\ evs[Len(evs)] \in TerminalEvents

\* What reader.next() may deliver after the events evs: any event of the
\* alphabet, and once the document has its full length only the end of the
\* stream (EndDocument or a lexical error), after which there is nothing.
Tokenizer(evs) ==
    IF Ended(evs) THEN {}
    ELSE IF Len(evs) >= (IF AttrCount(evs) > 0 THEN MaxAttrEvents
                         ELSE IF OnlyTags(evs) THEN MaxTagEvents ELSE MaxEvents)
    THEN TerminalEvents
    ELSE IF Len(evs) >= MaxEvents THEN BareTags \cup TerminalEvents
    ELSE {StartElement(n, <<>>, ScopeOf(n)) : n \in QNames}
         \cup (IF Len(evs) >= MaxAttrEvents THEN {}
               ELSE {StartElement(n, al, ScopeOf(n)) :
                        n \in QNames,
                        al \in AttrLists(MaxAttrs - AttrCount(evs)) \ {<<>>}})
         \cup {EndElement(n) : n \in EndNames}
         \cup {Characters(t) : t \in Texts}
         \cup {CData("c")}
         \cup {Whitespace, Comment, StartDocument, ProcessingInstruction}
         \cup TerminalEvents

-----------------------------------------------------------------------------
(* Element::parse and build.                                               *)

\* A variant of attr_map in which the first attribute of a key wins.
RECURSIVE attr_map_first(_, _)
attr_map_first(attributes, m) ==
    IF attributes = <<>> THEN m
    ELSE attr_map_first(Tail(attributes),
                        IF Head(attributes).name.local_name \in DOMAIN m THEN m
                        ELSE insert(m, Head(attributes).name.local_name,
                                    Head(attributes).value))

\* build, lines 119-122: the attribute list flattened into a map.
RECURSIVE attr_map(_, _)
attr_map(attributes, m) ==
    IF attributes = <<>> THEN m
    ELSE attr_map(Tail(attributes),
                  insert(m, Head(attributes).name.local_name, Head(attributes).value))

\* build, lines 124-136.
new_elem(ev) ==
    Element(ev.name.prefix, ev.name.namespace,
            IF is_essentially_empty(ev.namespace) THEN None ELSE Some(ev.namespace),
            ev.name.local_name, attr_map(ev.attributes, EmptyMap), <<>>, None)

\* parse, lines 178-181.
RECURSIVE root_attr_map(_, _)
root_attr_map(attributes, m) ==
    IF attributes = <<>> THEN m
    ELSE root_attr_map(Tail(attributes),
                       insert(m, Head(attributes).name.local_name, Head(attributes).value))

\* A variant of root that records the scope of the start tag whatever it holds.
root_scoped(ev) ==
    Element(ev.name.prefix, ev.name.namespace, Some(ev.namespace),
            ev.name.local_name, root_attr_map(ev.attributes, EmptyMap), <<>>, None)

\* parse, lines 183-195.
root(ev) ==
    Element(ev.name.prefix, ev.name.namespace,
            IF is_essentially_empty(ev.namespace) THEN None ELSE Some(ev.namespace),
            ev.name.local_name, root_attr_map(ev.attributes, EmptyMap), <<>>, None)

\* A variant of RootSkipped that skips processing instructions too.
RootSkippedAndPI == {"Comment", "Whitespace", "StartDocument", "ProcessingInstruction"}

\* A variant of RootSkipped that skips the end of the document too.
RootSkippedToEnd == {"Comment", "Whitespace", "StartDocument", "EndDocument"}

\* parse, lines 198-200: the events the root search skips.
RootSkipped == {"Comment", "Whitespace", "StartDocument"}
\* parse, lines 201-205: the events the root search rejects.
RootRejected ==
    {"EndDocument", "EndElement", "Characters", "CData", "ProcessingInstruction"}

\* A variant of EndMatches that lets any end tag close elem.
EndMatchesAny(ev, elem) == TRUE

\* build, line 108: the end tag closes elem.
EndMatches(ev, elem) == ev.name.local_name = elem.name

\* A variant of SetText that keeps the first text run.
SetTextFirst(elem, s) == IF elem.text # None THEN elem ELSE [elem EXCEPT !.text = Some(s)]

\* build, lines 139-141 and 143: elem.text = Some(s).
SetText(elem, s) == [elem EXCEPT !.text = Some(s)]

\* A variant of BodyIgnored that ignores processing instructions too.
BodyIgnoredAndPI == {"Whitespace", "Comment", "ProcessingInstruction"}

\* build, line 142: the events a body ignores.
BodyIgnored == {"Whitespace", "Comment"}
\* build, lines 144-146: the events a body rejects.
BodyRejected == {"StartDocument", "EndDocument", "ProcessingInstruction"}

\* A variant of Return in which a caller drops a failed child and goes on.
ReturnSwallow(callers, res) ==
    IF callers = <<>> THEN [phase |-> "done", stack |-> <<>>, result |-> res]
    ELSE IF res.kind = "Ok"
         THEN [phase |-> "body",
               stack |-> [callers EXCEPT ![Len(callers)].children = Append(@, res.elem)],
               result |-> NoResult]
         ELSE [phase |-> "body", stack |-> callers, result |-> NoResult]

\* A call of build returns res to its callers (their elems, outermost
\* first).  Line 137: an Ok child is pushed onto the caller's children and
\* the caller's loop goes on; try! makes the caller return an Err at once.
\* Line 196: with no caller left, parse returns res.
\* A variant of Return that puts a returned child before its siblings.
RECURSIVE ReturnPrepend(_, _)
ReturnPrepend(callers, res) ==
    IF callers = <<>> THEN [phase |-> "done", stack |-> <<>>, result |-> res]
    ELSE IF res.kind = "Ok"
         THEN [phase |-> "body",
               stack |-> [callers EXCEPT ![Len(callers)].children = <<res.elem>> \o @],
               result |-> NoResult]
         ELSE ReturnPrepend(Front(callers), res)

\* A variant of Return that reads on for another root once the root is closed.
RECURSIVE ReturnReadOn(_, _)
ReturnReadOn(callers, res) ==
    IF callers = <<>>
    THEN IF res.kind = "Ok" THEN [phase |-> "root", stack |-> <<>>, result |-> NoResult]
         ELSE [phase |-> "done", stack |-> <<>>, result |-> res]
    ELSE IF res.kind = "Ok"
         THEN [phase |-> "body",
               stack |-> [callers EXCEPT ![Len(callers)].children = Append(@, res.elem)],
               result |-> NoResult]
         ELSE ReturnReadOn(Front(callers), res)

RECURSIVE Return(_, _)
Return(callers, res) ==
    IF callers = <<>> THEN [phase |-> "done", stack |-> <<>>, result |-> res]
    ELSE IF res.kind = "Ok"
         THEN [phase |-> "body",
               stack |-> [callers EXCEPT ![Len(callers)].children = Append(@, res.elem)],
               result |-> NoResult]
         ELSE Return(Front(callers), res)

\* A variant of ParseArm that rejects whitespace and comments before the root.
ParseArmStrict(ev) ==
    IF ev.type = "StartElement"
    THEN [phase |-> "body", stack |-> <<root(ev)>>, result |-> NoResult]
    ELSE IF ev.type = "StartDocument"
    THEN [phase |-> "root", stack |-> <<>>, result |-> NoResult]
    ELSE IF ev.type \in RootRejected \cup {"Whitespace", "Comment"}
    THEN [phase |-> "done", stack |-> <<>>, result |-> CannotParse]
    ELSE [phase |-> "done", stack |-> <<>>, result |-> MalformedXml(ev.e)]

\* One iteration of the loop of parse on the event ev (lines 171-208).
ParseArm(ev) ==
    IF ev.type = "StartElement"
    THEN [phase |-> "body", stack |-> <<root(ev)>>, result |-> NoResult]
    ELSE IF ev.type \in RootSkipped
    THEN [phase |-> "root", stack |-> <<>>, result |-> NoResult]
    ELSE IF ev.type \in RootRejected
    THEN [phase |-> "done", stack |-> <<>>, result |-> CannotParse]
    ELSE [phase |-> "done", stack |-> <<>>, result |-> MalformedXml(ev.e)]

\* A variant of BuildArm that ignores an end tag of another name.
BuildArmLenient(st, ev) ==
    LET elem == Last(st)
        callers == Front(st)
        continue(e) == [phase |-> "body", stack |-> Append(callers, e), result |-> NoResult]
    IN  IF ev.type = "EndElement"
        THEN IF EndMatches(ev, elem)
             THEN Return(callers, Ok(elem))
             ELSE continue(elem)
        ELSE IF ev.type = "StartElement"
        THEN [phase |-> "body", stack |-> Append(st, new_elem(ev)), result |-> NoResult]
        ELSE IF ev.type = "Characters" THEN continue(SetText(elem, ev.s))
        ELSE IF ev.type \in BodyIgnored THEN continue(elem)
        ELSE IF ev.type = "CData" THEN continue(SetText(elem, ev.s))
        ELSE IF ev.type \in BodyRejected
        THEN Return(callers, CannotParse)
        ELSE Return(callers, MalformedXml(ev.e))

\* One iteration of the loop of the innermost call of build on the event
\* ev (lines 105-149); st holds the elems of the active calls.
BuildArm(st, ev) ==
    LET elem == Last(st)
        callers == Front(st)
        continue(e) == [phase |-> "body", stack |-> Append(callers, e), result |-> NoResult]
    IN  IF ev.type = "EndElement"
        THEN IF EndMatches(ev, elem)
             THEN Return(callers, Ok(elem))
             ELSE Return(callers, CannotParse)
        ELSE IF ev.type = "StartElement"
        THEN [phase |-> "body", stack |-> Append(st, new_elem(ev)), result |-> NoResult]
        ELSE IF ev.type = "Characters" THEN continue(SetText(elem, ev.s))
        ELSE IF ev.type \in BodyIgnored THEN continue(elem)
        ELSE IF ev.type = "CData" THEN continue(SetText(elem, ev.s))
        ELSE IF ev.type \in BodyRejected
        THEN Return(callers, CannotParse)
        ELSE Return(callers, MalformedXml(ev.e))

\* Element::parse on a reader that delivers the events evs: the loop of
\* parse, then the loops of build, until parse returns or evs is used up.
RECURSIVE parse_from(_, _)
parse_from(st, evs) ==
    IF evs = <<>> \/ st.phase = "done" THEN st
    ELSE parse_from(IF st.phase = "root" THEN ParseArm(Head(evs))
                    ELSE BuildArm(st.stack, Head(evs)),
                    Tail(evs))
parse(evs) == parse_from([phase |-> "root", stack |-> <<>>, result |-> NoResult], evs)

-----------------------------------------------------------------------------
(* Element::write and _write, over an emitter that may fail.               *)

\* A variant of WriterEndElement that names the end tag by the local name alone.
WriterEndElementLocal(name) ==
    [type |-> "EndElement", name |-> Some(OwnedName(name.local_name, None, None))]

\* xml::writer::XmlEvent::EndElement carries an optional name.
WriterEndElement(name) == [type |-> "EndElement", name |-> Some(name)]

WriteOk == [kind |-> "Ok"]
WriteErr(e) == [kind |-> "Err", e |-> e]
EmitErrors == {"w1", "w2"}

\* EventWriter::new_with_config: nothing written yet.  The emitter fails on
\* its failAt-th call with the error err (failAt = 0: it never fails).
EventWriter(failAt, err) ==
    [out |-> <<>>, calls |-> 0, failAt |-> failAt, err |-> err, res |-> WriteOk]

\* emitter.write(ev): the event is appended to the output, or the call fails.
Emit(em, ev) ==
    IF em.calls + 1 = em.failAt
    THEN [em EXCEPT !.calls = @ + 1, !.res = WriteErr(em.err)]
    ELSE [em EXCEPT !.calls = @ + 1, !.out = Append(@, ev)]

\* The emitter that never fails, and the emitters that fail on one of their
\* first n calls.
NoFault == [failAt |-> 0, err |-> ""]
Faults(n) == {NoFault} \cup {[failAt |-> i, err |-> e] : i \in 1..n, e \in EmitErrors}

\* The orders in which a HashMap may iterate over the keys S.
KeyOrders(S) ==
    {ks \in SeqsUpTo(S, Cardinality(S)) :
        /\ Len(ks) = Cardinality(S)
        /\ \A i, j \in 1..Len(ks) : i # j => ks[i] # ks[j]}

\* The attribute keys of the nodes of e.
RECURSIVE UsedKeys(_)
UsedKeys(e) ==
    (DOMAIN e.attributes) \cup UNION {UsedKeys(e.children[i]) : i \in DOMAIN e.children}

\* _write, lines 217-223: the local name, with namespace and prefix if any.
WriteName(e) == OwnedName(e.name, e.namespace, e.prefix)

\* _write, lines 225-231: one Attribute per entry of the map, in the map's
\* iteration order (order lists all keys).
WriteAttributes(e, order) ==
    LET Has(k) == k \in DOMAIN e.attributes
        ks == SelectSeq(order, Has)
    IN  [i \in 1..Len(ks) |-> OwnedAttribute(ks[i], e.attributes[ks[i]])]

\* _write, lines 233-238.
WriteNamespace(e) ==
    IF e.namespaces # None THEN e.namespaces[1] ELSE EmptyNamespace

\* A variant of WriteText that emits no text.
WriteTextNever(e, em) == em

\* _write, lines 245-247: a Characters event if there is text.
WriteText(e, em) ==
    IF e.text # None THEN Emit(em, Characters(e.text[1])) ELSE em

RECURSIVE NodeCount(_)
NodeCount(e) ==
    LET RECURSIVE Sum(_)
        Sum(cs) == IF cs = <<>> THEN 0 ELSE NodeCount(Head(cs)) + Sum(Tail(cs))
    IN  1 + Sum(e.children)

RECURSIVE EventCount(_)
EventCount(e) ==
    LET RECURSIVE Sum(_)
        Sum(cs) == IF cs = <<>> THEN 0 ELSE EventCount(Head(cs)) + Sum(Tail(cs))
    IN  2 + (IF e.text # None THEN 1 ELSE 0) + Sum(e.children)

\* The StartElement events in evs.
IsStart(ev) == ev.type = "StartElement"
IsEnd(ev) == ev.type = "EndElement"
StartsOf(evs) == SelectSeq(evs, IsStart)
EndsOf(evs) == SelectSeq(evs, IsEnd)

\* A variant of _write that emits the text of a node after its children.
RECURSIVE _write_text_last(_, _, _)
_write_text_last(e, em, ord) ==
    LET nth == Len(StartsOf(em.out)) + 1
        RECURSIVE children(_, _)
        children(cs, m) ==
            IF cs = <<>> \/ m.res.kind # "Ok" THEN m
            ELSE children(Tail(cs), _write_text_last(Head(cs), m, ord))
        s == Emit(em, StartElement(WriteName(e), WriteAttributes(e, ord[nth]),
                                   WriteNamespace(e)))
        c == children(e.children, s)
        t == WriteText(e, c)
    IN  IF s.res.kind # "Ok" THEN s
        ELSE IF c.res.kind # "Ok" THEN c
        ELSE IF t.res.kind # "Ok" THEN t
        ELSE Emit(t, WriterEndElement(WriteName(e)))

\* A variant of _write that goes on after a failed call of the emitter.
RECURSIVE _write_unchecked(_, _, _)
_write_unchecked(e, em, ord) ==
    LET nth == Len(StartsOf(em.out)) + 1
        RECURSIVE children(_, _)
        children(cs, m) ==
            IF cs = <<>> THEN m
            ELSE children(Tail(cs), _write_unchecked(Head(cs), m, ord))
        s == Emit(em, StartElement(WriteName(e), WriteAttributes(e, ord[nth]),
                                   WriteNamespace(e)))
        t == WriteText(e, s)
        c == children(e.children, t)
    IN  Emit(c, WriterEndElement(WriteName(e)))

\* _write (lines 211-254); every ? returns the emitter's error at once.
\* ord[i] is the iteration order of the attribute map of the i-th node
\* written.  The result is the emitter after the call, res its outcome.
RECURSIVE _write(_, _, _)
_write(e, em, ord) ==
    LET nth == Len(StartsOf(em.out)) + 1
        RECURSIVE children(_, _)
        children(cs, m) ==
            IF cs = <<>> \/ m.res.kind # "Ok" THEN m
            ELSE children(Tail(cs), _write(Head(cs), m, ord))
        s == Emit(em, StartElement(WriteName(e), WriteAttributes(e, ord[nth]),
                                   WriteNamespace(e)))
        t == WriteText(e, s)
        c == children(e.children, t)
    IN  IF s.res.kind # "Ok" THEN s
        ELSE IF t.res.kind # "Ok" THEN t
        ELSE IF c.res.kind # "Ok" THEN c
        ELSE Emit(c, WriterEndElement(WriteName(e)))

\* Element::write_with_config (lines 262-267) on a fresh emitter.
write_with_config(e, failAt, err, ord) == _write(e, EventWriter(failAt, err), ord)

\* The event the second tokenizer delivers for an emitted event: an end tag
\* has its name, a start tag's scope holds the default bindings too.
ReaderEvent(w) ==
    IF w.type = "EndElement" THEN EndElement(w.name[1])
    ELSE IF w.type = "StartElement"
    THEN StartElement(w.name, w.attributes, w.namespace \cup DefaultBindings)
    ELSE w

-----------------------------------------------------------------------------
(* The actions of parsing, writing and parsing again.                      *)

\* reader.next(): pass 1 reads the tokenizer's stream, pass 2 what was
\* emitted, followed by the end of the document.
NextEvents ==
    IF pass = 1 THEN Tokenizer(pulled)
    ELSE IF replay # <<>> THEN {ReaderEvent(Head(replay))}
    ELSE {EndDocument}

Pull(ev) ==
    /\ pulled' = Append(pulled, ev)
    /\ replay' = IF pass = 2 /\ replay # <<>> THEN Tail(replay) ELSE replay

\* One iteration of the loop of Element::parse.
ParseStep ==
    /\ phase = "root"
    /\ \E ev \in NextEvents :
          LET n == ParseArm(ev)
          IN  /\ Pull(ev)
              /\ phase' = n.phase
              /\ stack' = n.stack
              /\ result' = n.result
    /\ UNCHANGED <<pass, first, wresult, emitted, fault>>
    /\ UNCHANGED navVars

\* One iteration of the loop of the innermost call of build.
BuildStep ==
    /\ phase = "body"
    /\ \E ev \in NextEvents :
          LET n == BuildArm(stack, ev)
          IN  /\ Pull(ev)
              /\ phase' = n.phase
              /\ stack' = n.stack
              /\ result' = n.result
    /\ UNCHANGED <<pass, first, wresult, emitted, fault>>
    /\ UNCHANGED navVars

\* Element::write on the tree parse returned.
Write ==
    /\ pass = 1
    /\ phase = "done"
    /\ result.kind = "Ok"
    /\ wresult = NoResult
    /\ \E f \in Faults(EventCount(result.elem)),
          ord \in [1..NodeCount(result.elem) -> KeyOrders(UsedKeys(result.elem))] :
          LET w == write_with_config(result.elem, f.failAt, f.err, ord)
          IN  /\ emitted' = w.out
              /\ wresult' = w.res
              /\ fault' = f
    /\ UNCHANGED <<pass, phase, stack, result, pulled, first, replay>>
    /\ UNCHANGED navVars

\* Element::parse on a reader over what write emitted.
Reparse ==
    /\ pass = 1
    /\ wresult = WriteOk
    /\ pass' = 2
    /\ phase' = "root"
    /\ stack' = <<>>
    /\ result' = NoResult
    /\ pulled' = <<>>
    /\ first' = result.elem
    /\ replay' = emitted
    /\ UNCHANGED <<wresult, emitted, fault>>
    /\ UNCHANGED navVars

\* No take_child call has been made yet.
NoRun == [k |-> "", start |-> new("a"), got |-> <<>>]

Init ==
    /\ pass = 1
    /\ phase = "root"
    /\ stack = <<>>
    /\ result = NoResult
    /\ pulled = <<>>
    /\ first = new("a")
    /\ wresult = NoResult
    /\ emitted = <<>>
    /\ fault = NoFault
    /\ replay = <<>>
    /\ tree = new("a")
    /\ op = [name |-> "new", k |-> "a"]
    /\ ret = None
    /\ before = new("a")
    /\ run = NoRun

Next ==
    \/ ParseStep
    \/ BuildStep
    \/ Write
    \/ Reparse

Spec == Init /\ [][Next]_vars

\* parse and build are sequential loops: an iteration that can run does run.
\* Whether the caller goes on to write the tree, and to parse what was
\* written, is left open.
FairSpec == Spec /\ WF_vars(ParseStep) /\ WF_vars(BuildStep)

-----------------------------------------------------------------------------
(* get_child, get_mut_child and take_child, on trees built through the     *)
(* constructor and the public fields.                                      *)

\* The names looked up: the two local names, and the prefix p, which is the
\* name of no element.
LookupKeys == {"a", "b", "p"}

\* Iterator::find(|e| e.name == k) over children from its i-th element on:
\* a reference to the first element of that name, as its place in children
\* (counted from 1), or None.
RECURSIVE find(_, _, _)
find(children, k, i) ==
    IF i > Len(children) THEN None
    ELSE IF children[i].name = k THEN Some(i)
    ELSE find(children, k, i + 1)

\* A variant of get_child for which a prefixed element has no plain name.
get_child_qualified(self, k) ==
    LET Plain(e) == e.prefix = None
        hits == {i \in 1..Len(self.children) :
                    Plain(self.children[i]) /\ self.children[i].name = k}
    IN  IF hits = {} THEN None ELSE Some(CHOOSE i \in hits : \A j \in hits : i <= j)

\* Element::get_child (lines 270-275).
get_child(self, k) == find(self.children, k, 1)

\* Element::get_mut_child (lines 278-283).
get_mut_child(self, k) == find(self.children, k, 1)

\* A variant of position that yields the last element of that name.
RECURSIVE position_last(_, _, _)
position_last(children, k, i) ==
    IF i >= Len(children) THEN None
    ELSE IF position_last(children, k, i + 1) # None
    THEN position_last(children, k, i + 1)
    ELSE IF children[i + 1].name = k THEN Some(i) ELSE None

\* Iterator::position(|e| e.name == k) over children from index i on: the
\* index, counted from 0, of the first element of that name, or None.
RECURSIVE position(_, _, _)
position(children, k, i) ==
    IF i >= Len(children) THEN None
    ELSE IF children[i + 1].name = k THEN Some(i)
    ELSE position(children, k, i + 1)

\* A variant of remove that leaves the vector as it is.
remove_nothing(v, i) == v

\* Vec::remove(i), i counted from 0: the later elements move down by one.
remove(v, i) == SubSeq(v, 1, i) \o SubSeq(v, i + 2, Len(v))

\* A variant of take_child that, finding no child of that name, goes on to
\* look among the children of the children.
take_child_deep(self, k) ==
    LET p == position(self.children, k, 0)
        holders == {i \in 1..Len(self.children) :
                       position(self.children[i].children, k, 0) # None}
    IN  IF p # None
        THEN [self |-> [self EXCEPT !.children = remove(@, p[1])],
              ret |-> Some(self.children[p[1] + 1])]
        ELSE IF holders = {} THEN [self |-> self, ret |-> None]
        ELSE LET i == CHOOSE x \in holders : \A y \in holders : x <= y
                 q == position(self.children[i].children, k, 0)[1]
             IN  [self |-> [self EXCEPT !.children[i].children = remove(@, q)],
                  ret |-> Some(self.children[i].children[q + 1])]

\* Element::take_child (lines 286-294): self after the call, and what the
\* call returned.
take_child(self, k) ==
    LET p == position(self.children, k, 0)
    IN  IF p = None THEN [self |-> self, ret |-> None]
        ELSE [self |-> [self EXCEPT !.children = remove(@, p[1])],
              ret |-> Some(self.children[p[1] + 1])]

\* The places of the nodes of e: the root is <<>>, the i-th child of the
\* node at p is Append(p, i).
RECURSIVE Paths(_)
Paths(e) ==
    {<<>>} \cup UNION {{<<i>> \o p : p \in Paths(e.children[i])} : i \in 1..Len(e.children)}

\* children.push(c) on the node at path of e.
RECURSIVE PushAt(_, _, _)
PushAt(e, path, c) ==
    IF path = <<>> THEN [e EXCEPT !.children = Append(@, c)]
    ELSE [e EXCEPT !.children[Head(path)] = PushAt(@, Tail(path), c)]

\* Element::new, then its prefix and namespace set as the name has them.
NewNamed(qn) == [new(qn.local_name) EXCEPT !.prefix = qn.prefix, !.namespace = qn.namespace]

Edited == [name |-> "edit", k |-> ""]

\* A new element is pushed onto the children of some node of the tree.
PushChild ==
    /\ wresult = NoResult
    /\ NodeCount(tree) < MaxNodes
    /\ \E path \in Paths(tree), qn \in QNames : tree' = PushAt(tree, path, NewNamed(qn))
    /\ op' = Edited
    /\ ret' = None
    /\ before' = tree'
    /\ run' = NoRun
    /\ UNCHANGED parseVars

\* The text of the root is set.
SetRootText ==
    /\ wresult = NoResult
    /\ tree.text = None
    /\ tree' = [tree EXCEPT !.text = Some("s")]
    /\ op' = Edited
    /\ ret' = None
    /\ before' = tree'
    /\ run' = NoRun
    /\ UNCHANGED parseVars

\* An attribute is inserted through the reference get_mut_child returned
\* (the example of lines 24-25).
InsertThroughRef ==
    /\ wresult = NoResult
    /\ op.name = "get_mut_child"
    /\ ret # None
    /\ tree' = [tree EXCEPT !.children[ret[1]].attributes = insert(@, "suffix", "mr")]
    /\ op' = Edited
    /\ ret' = None
    /\ before' = tree'
    /\ run' = NoRun
    /\ UNCHANGED parseVars

GetChild ==
    /\ wresult = NoResult
    /\ \E k \in LookupKeys :
          /\ ret' = get_child(tree, k)
          /\ op' = [name |-> "get_child", k |-> k]
    /\ before' = tree
    /\ run' = NoRun
    /\ UNCHANGED tree
    /\ UNCHANGED parseVars

GetMutChild ==
    /\ wresult = NoResult
    /\ \E k \in LookupKeys :
          /\ ret' = get_mut_child(tree, k)
          /\ op' = [name |-> "get_mut_child", k |-> k]
    /\ before' = tree
    /\ run' = NoRun
    /\ UNCHANGED tree
    /\ UNCHANGED parseVars

\* run records the calls made in a row with one key, up to one call more
\* than the parent had children when the first of them was made.
TakeChild ==
    /\ wresult = NoResult
    /\ \E k \in LookupKeys :
          LET r == take_child(tree, k)
          IN  /\ tree' = r.self
              /\ ret' = r.ret
              /\ op' = [name |-> "take_child", k |-> k]
              /\ run' = IF op.name = "take_child" /\ op.k = k
                         THEN IF Len(run.got) > Len(run.start.children) THEN run
                              ELSE [run EXCEPT !.got = Append(@, r.ret)]
                         ELSE [k |-> k, start |-> tree, got |-> <<r.ret>>]
    /\ before' = tree
    /\ UNCHANGED parseVars

\* Element::write on the tree, whatever calls built it.
WriteTree ==
    /\ wresult = NoResult
    /\ NodeCount(tree) <= MaxWritten
    /\ \E f \in Faults(EventCount(tree)),
          ord \in [1..NodeCount(tree) -> KeyOrders(UsedKeys(tree))] :
          LET w == write_with_config(tree, f.failAt, f.err, ord)
          IN  /\ emitted' = w.out
              /\ wresult' = w.res
              /\ fault' = f
    /\ op' = [name |-> "write", k |-> ""]
    /\ ret' = None
    /\ before' = tree
    /\ run' = NoRun
    /\ UNCHANGED <<pass, phase, stack, result, pulled, first, replay, tree>>

InitNav ==
    /\ pass = 1
    /\ phase = "root"
    /\ stack = <<>>
    /\ result = NoResult
    /\ pulled = <<>>
    /\ first = new("a")
    /\ wresult = NoResult
    /\ emitted = <<>>
    /\ fault = NoFault
    /\ replay = <<>>
    /\ run = NoRun
    /\ \E n \in {"a", "b"} :
          /\ tree = new(n)
          /\ op = [name |-> "new", k |-> n]
          /\ before = new(n)
    /\ ret = None

NextNav ==
    \/ PushChild
    \/ SetRootText
    \/ InsertThroughRef
    \/ GetChild
    \/ GetMutChild
    \/ TakeChild
    \/ WriteTree

SpecNav == InitNav /\ [][NextNav]_vars

-----------------------------------------------------------------------------
(* Reading a tree against the events it was built from.                    *)

\* The nodes of a tree in document order, and in the order they are closed.
RECURSIVE Preorder(_)
Preorder(e) ==
    LET RECURSIVE All(_)
        All(cs) == IF cs = <<>> THEN <<>> ELSE Preorder(Head(cs)) \o All(Tail(cs))
    IN  <<e>> \o All(e.children)

RECURSIVE Postorder(_)
Postorder(e) ==
    LET RECURSIVE All(_)
        All(cs) == IF cs = <<>> THEN <<>> ELSE Postorder(Head(cs)) \o All(Tail(cs))
    IN  All(e.children) \o <<e>>

\* The positions in evs of the start tags still open after the first n events.
RECURSIVE OpenAfter(_, _)
OpenAfter(evs, n) ==
    IF n = 0 THEN <<>>
    ELSE LET open == OpenAfter(evs, n - 1)
         IN  IF evs[n].type = "StartElement" THEN Append(open, n)
             ELSE IF evs[n].type = "EndElement" /\ open # <<>> THEN Front(open)
             ELSE open

\* The positions of the start tags in evs, in order.
RECURSIVE StartPositions(_, _)
StartPositions(evs, n) ==
    IF n = 0 THEN <<>>
    ELSE IF evs[n].type = "StartElement" THEN Append(StartPositions(evs, n - 1), n)
    ELSE StartPositions(evs, n - 1)

Max(S) == CHOOSE x \in S : \A y \in S : y <= x

NamesOf(es) == [i \in 1..Len(es) |-> es[i].name]
LocalNames(evs) == [i \in 1..Len(evs) |-> evs[i].name.local_name]

\* The positions of the Characters and CData events directly in the body of
\* the element opened at position i of evs.
DirectTexts(evs, i) ==
    {t \in 1..Len(evs) :
        /\ evs[t].type \in {"Characters", "CData"}
        /\ OpenAfter(evs, t - 1) # <<>>
        /\ Last(OpenAfter(evs, t - 1)) = i}

LastText(evs, i) ==
    IF DirectTexts(evs, i) = {} THEN None ELSE Some(evs[Max(DirectTexts(evs, i))].s)

\* The map an attribute list stands for: every key of the list, with the
\* value of the last attribute of that key.
LastWins(al) ==
    [k \in {al[i].name.local_name : i \in 1..Len(al)} |->
        al[Max({i \in 1..Len(al) : al[i].name.local_name = k})].value]

\* Equal in name, attributes, text and, in order and recursively, children.
RECURSIVE SameShape(_, _)
SameShape(t, u) ==
    /\ t.name = u.name
    /\ t.attributes = u.attributes
    /\ t.text = u.text
    /\ Len(t.children) = Len(u.children)
    /\ \A i \in 1..Len(t.children) : SameShape(t.children[i], u.children[i])

-----------------------------------------------------------------------------
(* The claims about parse, build and the round trip.                       *)

\* C1: a tree parse returned, written by write and parsed again from the
\* emitted events, comes back Ok and equal in name, attributes, children
\* and text at every node.
C1_RoundTrip ==
    (pass = 2 /\ phase = "done") =>
        /\ result.kind = "Ok"
        /\ SameShape(result.elem, first)

\* A round trip of a tree with text and two attributes that the map handed
\* to the emitter in the other order than the document had them.
C1_Witness ==
    /\ pass = 2
    /\ phase = "done"
    /\ result.kind = "Ok"
    /\ first.text # None
    /\ DOMAIN first.attributes = {"x", "y"}
    /\ first.attributes["x"] = "1"
    /\ emitted[1].attributes[1].name.local_name = "y"

\* C2: in a tree parse returned, the k-th node in document order has the
\* name of the k-th StartElement event, and the k-th node to be closed has
\* the name of the k-th EndElement event.  Names are local names, as the
\* name of an Element is: prefixes take no part in the comparison.
C2_TagMatching ==
    result.kind = "Ok" =>
        /\ NamesOf(Preorder(result.elem)) = LocalNames(StartsOf(pulled))
        /\ NamesOf(Postorder(result.elem)) = LocalNames(EndsOf(pulled))

\* A returned tree of nested elements of different names.
C2_Witness ==
    /\ pass = 1
    /\ result.kind = "Ok"
    /\ result.elem.name = "b"
    /\ Len(result.elem.children) = 1
    /\ result.elem.children[1].name = "a"

\* C3: an EndElement whose (local) name differs from the name of the
\* innermost open element makes parse return CannotParse, at any depth.
C3_MismatchRejected ==
    pulled # <<>> =>
        LET ev == Last(pulled)
            open == OpenAfter(pulled, Len(pulled) - 1)
        IN  (/\ ev.type = "EndElement"
             /\ open # <<>>
             /\ ev.name.local_name # pulled[Last(open)].name.local_name)
            => (phase = "done" /\ result = CannotParse)

\* The events of <a><b></a>: the mismatch is at depth two.
C3_Witness ==
    /\ pass = 1
    /\ Len(pulled) = 3
    /\ LocalNames(StartsOf(pulled)) = <<"a", "b">>
    /\ pulled[3].type = "EndElement"
    /\ pulled[3].name.local_name = "a"
    /\ result = CannotParse

\* C4: the first event that is not a Comment, Whitespace or StartDocument
\* decides the root search: a StartElement becomes the root; EndDocument,
\* EndElement, Characters, CData and ProcessingInstruction end parse at once
\* with CannotParse; until such an event arrives the search goes on.
FirstSignificant(evs) ==
    LET sig == {i \in 1..Len(evs) :
                   evs[i].type \notin {"Comment", "Whitespace", "StartDocument"}}
    IN  IF sig = {} THEN 0 ELSE CHOOSE i \in sig : \A j \in sig : i <= j

C4_RootSearch ==
    LET i == FirstSignificant(pulled)
    IN  /\ i = 0 => (phase = "root" /\ result = NoResult)
        /\ (i # 0 /\ pulled[i].type = "StartElement") =>
              /\ phase # "root"
              /\ phase = "body" => stack[1].name = pulled[i].name.local_name
              /\ result.kind = "Ok" => result.elem.name = pulled[i].name.local_name
        /\ (i # 0 /\ pulled[i].type \in {"EndDocument", "EndElement", "Characters",
                                         "CData", "ProcessingInstruction"}) =>
              /\ phase = "done"
              /\ result = CannotParse
              /\ Len(pulled) = i

\* A document of a comment and a processing instruction, and no element.
C4_Witness ==
    /\ pulled = <<Comment, ProcessingInstruction>>
    /\ phase = "done"
    /\ result = CannotParse

\* C5: parse ends Ok, MalformedXml or CannotParse; it ends MalformedXml(e)
\* exactly when the event that stopped it is the tokenizer's error e, at
\* whatever depth; no event is pulled after an error and no tree, partial or
\* other, comes with an error.
C5_ErrorTaxonomy ==
    /\ result.kind \in {"none", "Ok", "MalformedXml", "CannotParse"}
    /\ (phase = "done") <=> (result.kind # "none")
    /\ \A i \in 1..Len(pulled) : pulled[i].type = "Error" => i = Len(pulled)
    /\ (pulled # <<>> /\ Last(pulled).type = "Error") <=> (result.kind = "MalformedXml")
    /\ result.kind = "MalformedXml" => result = [kind |-> "MalformedXml", e |-> Last(pulled).e]
    /\ result.kind = "CannotParse" => result = [kind |-> "CannotParse"]
    /\ phase = "done" => stack = <<>>

\* The tokenizer fails with e2 inside an element nested in the root.
C5_Witness ==
    /\ Len(pulled) = 3
    /\ pulled[1].type = "StartElement"
    /\ pulled[2].type = "StartElement"
    /\ pulled[3] = Error("e2")
    /\ result = MalformedXml("e2")

\* C6: in a tree parse returned, the text of every node is the payload of
\* the last Characters or CData event directly in its body, and none when
\* its body has no such event.
C6_LastTextWins ==
    result.kind = "Ok" =>
        LET pre == Preorder(result.elem)
            sp == StartPositions(pulled, Len(pulled))
        IN  /\ Len(pre) = Len(sp)
            /\ \A k \in 1..Len(pre) : pre[k].text = LastText(pulled, sp[k])

\* Characters "s" then Characters "t" in the root's body: the text is "t".
C6_Witness ==
    /\ pass = 1
    /\ result.kind = "Ok"
    /\ Len(pulled) = 4
    /\ pulled[2] = Characters("s")
    /\ pulled[3] = Characters("t")
    /\ result.elem.text = Some("t")

\* C7: in a tree parse returned, the attributes of every node are the keys
\* of its StartElement event's list, each with the value of the last
\* attribute of that key in the list.
C7_DuplicateAttributes ==
    result.kind = "Ok" =>
        LET pre == Preorder(result.elem)
            sp == StartPositions(pulled, Len(pulled))
        IN  /\ Len(pre) = Len(sp)
            /\ \A k \in 1..Len(pre) :
                  pre[k].attributes = LastWins(pulled[sp[k]].attributes)

\* A child whose start tag has x="1" then x="2": its map has x -> "2".
C7_Witness ==
    /\ pass = 1
    /\ result.kind = "Ok"
    /\ Len(pulled) = 4
    /\ pulled[2].type = "StartElement"
    /\ pulled[2].attributes = <<OwnedAttribute("x", "1"), OwnedAttribute("x", "2")>>
    /\ Len(result.elem.children) = 1
    /\ result.elem.children[1].attributes = [k \in {"x"} |-> "2"]

-----------------------------------------------------------------------------
(* The claims about the child lookup API.                                  *)

\* The places in cs of the elements named k.
Named(cs, k) == {i \in 1..Len(cs) : cs[i].name = k}
Min(S) == CHOOSE x \in S : \A y \in S : x <= y

\* C8: take_child(k) on a parent with a child named k removes the first
\* such child and returns it as it was; the other children keep their
\* order, and the parent's own fields are unchanged.
C8_TakeChildFirst ==
    (op.name = "take_child" /\ Named(before.children, op.k) # {}) =>
        LET i == Min(Named(before.children, op.k))
        IN  /\ ret = Some(before.children[i])
            /\ Len(tree.children) = Len(before.children) - 1
            /\ \A j \in 1..Len(tree.children) :
                  tree.children[j] = before.children[IF j < i THEN j ELSE j + 1]
            /\ tree.name = before.name
            /\ tree.attributes = before.attributes
            /\ tree.text = before.text
            /\ tree.prefix = before.prefix
            /\ tree.namespace = before.namespace
            /\ tree.namespaces = before.namespaces

\* Children [a, b, a], the first a with a child of its own: take_child("a")
\* returns that one, child included, and leaves [b, a].
C8_Witness ==
    /\ op = [name |-> "take_child", k |-> "a"]
    /\ NamesOf(before.children) = <<"a", "b", "a">>
    /\ before.children[1].children # <<>>
    /\ before.children[3].children = <<>>
    /\ before.text # None
    /\ ret = Some(before.children[1])
    /\ tree.children = <<before.children[2], before.children[3]>>

\* C9: take_child(k) on a parent with no direct child named k returns none
\* and leaves the tree as it was, whatever the deeper descendants are named.
C9_TakeChildAbsent ==
    (op.name = "take_child" /\ Named(before.children, op.k) = {}) =>
        /\ ret = None
        /\ tree = before

\* No child is named b, a grandchild is: take_child("b") returns none.
C9_Witness ==
    /\ op = [name |-> "take_child", k |-> "b"]
    /\ Len(before.children) = 1
    /\ before.children[1].name = "a"
    /\ Named(before.children[1].children, "b") # {}
    /\ ret = None
    /\ tree = before

\* C10: get_child(k) and get_mut_child(k) both refer to the first direct
\* child whose name is k, whatever its prefix and namespace, or return none
\* when there is none; the two lookups agree, and neither changes the tree.
C10_GetChildFirst ==
    op.name \in {"get_child", "get_mut_child"} =>
        /\ tree = before
        /\ ret = (IF Named(tree.children, op.k) = {} THEN None
                  ELSE Some(Min(Named(tree.children, op.k))))
        /\ get_child(tree, op.k) = get_mut_child(tree, op.k)

\* Children [a, p:b, p:b]: get_mut_child("b") refers to the second child.
C10_Witness ==
    /\ op = [name |-> "get_mut_child", k |-> "b"]
    /\ NamesOf(tree.children) = <<"a", "b", "b">>
    /\ tree.children[2].prefix = Some("p")
    /\ ret = Some(2)

-----------------------------------------------------------------------------
(* The events of a write.                                                  *)

\* The kind of an emitted event, with the name of a tag in full and the
\* string of a text.
Abstract(ev) ==
    IF ev.type = "StartElement" THEN [type |-> "StartElement", name |-> ev.name]
    ELSE IF ev.type = "EndElement" THEN [type |-> "EndElement", name |-> ev.name[1]]
    ELSE IF ev.type = "Characters" THEN [type |-> "Characters", s |-> ev.s]
    ELSE [type |-> "other"]

\* The events of the subtree e in document order: the start tag of e, its
\* text if it has one, the events of each child in child order, its end tag.
RECURSIVE DocumentOrder(_)
DocumentOrder(e) ==
    LET name == [local_name |-> e.name, namespace |-> e.namespace, prefix |-> e.prefix]
        RECURSIVE Each(_)
        Each(cs) == IF cs = <<>> THEN <<>> ELSE DocumentOrder(Head(cs)) \o Each(Tail(cs))
    IN  <<[type |-> "StartElement", name |-> name]>>
        \o (IF e.text = None THEN <<>> ELSE <<[type |-> "Characters", s |-> e.text[1]]>>)
        \o Each(e.children)
        \o <<[type |-> "EndElement", name |-> name]>>

\* C11: a write whose emitter never fails emits, for every node, one
\* StartElement and one EndElement with the same composed name and one
\* Characters event exactly if the node has text, in the order start, text,
\* the complete events of each child in child order, end; it emits no event
\* of another kind.
C11_EventShape ==
    (op.name = "write" /\ wresult = WriteOk) =>
        [i \in 1..Len(emitted) |-> Abstract(emitted[i])] = DocumentOrder(before)

C11_Witness ==
    /\ op.name = "write"
    /\ wresult = WriteOk
    /\ before.text # None
    /\ Len(before.children) = 2
    /\ before.children[1].children # <<>>
    /\ before.children[1].prefix # before.children[2].prefix
    /\ Len(emitted) = 9

\* C12: when a call of the emitter fails, on a StartElement, a Characters or
\* an EndElement event at any depth, write returns the error of that call
\* unchanged; the events emitted are those before the failing call, and none
\* after it.
C12_EmitFailure ==
    (pass = 1 /\ wresult.kind = "Err") =>
        /\ wresult = WriteErr(fault.err)
        /\ fault.failAt >= 1
        /\ [i \in 1..Len(emitted) |-> Abstract(emitted[i])]
              = SubSeq(DocumentOrder(result.elem), 1, fault.failAt - 1)

C12_Witness ==
    /\ pass = 1
    /\ wresult = WriteErr("w2")
    /\ result.elem.children # <<>>
    /\ Len(emitted) = 2
    /\ DocumentOrder(result.elem)[3].type = "Characters"
    /\ Len(DocumentOrder(result.elem)) = 5

-----------------------------------------------------------------------------
(* The smallest document.                                                  *)

\* The events of evs other than those the root search skips.
Significant(ev) == ev.type \notin RootSkipped
\* The events of the document <a/>: a start tag without prefix, attributes
\* or bindings of its own, and its end tag.
SelfClosing(n) ==
    <<StartElement(OwnedName(n, None, None), <<>>, DefaultBindings),
      EndElement(OwnedName(n, None, None))>>

\* C13: parsing a self-closing element without attributes yields a root with
\* the name of the tag, no children, no attributes and no text, equal to
\* Element::new of that name; writing it emits its StartElement and then its
\* EndElement, and nothing else.
C13_EmptyElement ==
    \A n \in {"a"} :
        (pass = 1 /\ SelectSeq(pulled, Significant) = SelfClosing(n)) =>
            /\ phase = "done"
            /\ result = Ok(new(n))
            /\ result.elem.name = n
            /\ result.elem.children = <<>>
            /\ DOMAIN result.elem.attributes = {}
            /\ result.elem.text = None
            /\ wresult = WriteOk =>
                  emitted = <<StartElement(OwnedName(n, None, None), <<>>, EmptyNamespace),
                              WriterEndElement(OwnedName(n, None, None))>>

C13_Witness ==
    /\ pass = 1
    /\ pulled = <<StartDocument>> \o SelfClosing("a")
    /\ result = Ok(new("a"))
    /\ wresult = WriteOk
    /\ Len(emitted) = 2

-----------------------------------------------------------------------------
(* Events that are not legal in a body.                                    *)

\* C14: inside the body of an element, at any depth, a StartDocument, an
\* EndDocument or a ProcessingInstruction event makes parse fail with
\* CannotParse; so does the end of the document while an element is open.
C14_IllegalInBody ==
    (/\ pulled # <<>>
     /\ Last(pulled).type \in {"StartDocument", "EndDocument", "ProcessingInstruction"}
     /\ OpenAfter(pulled, Len(pulled) - 1) # <<>>) =>
        /\ phase = "done"
        /\ result = CannotParse

C14_Witness ==
    /\ Len(pulled) = 4
    /\ pulled[3].type = "Characters"
    /\ pulled[4] = EndDocument
    /\ Len(OpenAfter(pulled, 3)) = 2
    /\ result = CannotParse

-----------------------------------------------------------------------------
(* Whitespace and comments.                                                *)

\* The events of evs other than Whitespace and Comment.
NotBlank(ev) == ev.type \notin {"Whitespace", "Comment"}

\* C15: Whitespace and Comment events change nothing: parse is where it
\* would be, and returns what it would return, had the Whitespace and
\* Comment events it read, before the root and in any body, not been there.
C15_BlanksIgnored ==
    phase \in {"root", "body", "done"} =>
        [phase |-> phase, stack |-> stack, result |-> result]
            = parse(SelectSeq(pulled, NotBlank))

C15_Witness ==
    /\ pass = 1
    /\ result.kind = "Ok"
    /\ result.elem.text # None
    /\ Len(pulled) = 5
    /\ pulled[1] = Comment
    /\ pulled[3] = Whitespace

-----------------------------------------------------------------------------
(* The children of a node.                                                 *)

\* The positions of the start tags directly in the body of the element
\* opened at position i of evs.
DirectStarts(evs, i) ==
    {t \in (i + 1)..Len(evs) :
        /\ evs[t].type = "StartElement"
        /\ LET open == OpenAfter(evs, t - 1)
           IN  open # <<>> /\ Last(open) = i}

\* The numbers of S in ascending order.
RECURSIVE Ascending(_)
Ascending(S) == IF S = {} THEN <<>> ELSE <<Min(S)>> \o Ascending(S \ {Min(S)})

IndexOf(seq, x) == CHOOSE k \in 1..Len(seq) : seq[k] = x

\* The node carries what the start tag ev says of it.
Carries(node, ev) ==
    /\ node.name = ev.name.local_name
    /\ node.prefix = ev.name.prefix
    /\ node.namespace = ev.name.namespace
    /\ node.attributes = LastWins(ev.attributes)

\* C16: the children of every node are exactly the elements whose
\* StartElement occurred directly in the body of that node, in the order of
\* those events, each with the name, prefix, namespace and attributes of its
\* own StartElement; a child is among the children of its parent only once
\* its own body is complete.
C16_ChildrenInOrder ==
    /\ result.kind = "Ok" =>
          LET sp == StartPositions(pulled, Len(pulled))
              pre == Preorder(result.elem)
          IN  /\ Len(pre) = Len(sp)
              /\ \A k \in 1..Len(pre) :
                    LET ds == Ascending(DirectStarts(pulled, sp[k]))
                    IN  /\ Carries(pre[k], pulled[sp[k]])
                        /\ Len(pre[k].children) = Len(ds)
                        /\ \A j \in 1..Len(ds) :
                              pre[k].children[j] = pre[IndexOf(sp, ds[j])]
    /\ phase = "body" =>
          LET open == OpenAfter(pulled, Len(pulled))
          IN  /\ Len(stack) = Len(open)
              /\ \A d \in 1..Len(stack) :
                    LET ds == Ascending({t \in DirectStarts(pulled, open[d]) :
                                            \A x \in 1..Len(open) : open[x] # t})
                    IN  /\ Carries(stack[d], pulled[open[d]])
                        /\ Len(stack[d].children) = Len(ds)
                        /\ \A j \in 1..Len(ds) :
                              Carries(stack[d].children[j], pulled[ds[j]])

\* A root with two children of different names, prefixes and namespaces.
C16_Witness ==
    /\ pass = 1
    /\ result.kind = "Ok"
    /\ Len(result.elem.children) = 2
    /\ result.elem.children[1].prefix = Some("p")
    /\ result.elem.children[2].prefix = None
    /\ pulled[2].name.local_name = "b"
    /\ pulled[4].name.local_name = "a"

-----------------------------------------------------------------------------
(* Termination.                                                            *)

\* What the second reader delivers for the emitted events evs.
ReaderEvents(evs) == [i \in 1..Len(evs) |-> ReaderEvent(evs[i])]

\* C17: on every finite event sequence, ended by EndDocument or a lexical
\* error, parse returns a result after a single forward pass: it reads no
\* more events than the sequence has, each event once and in order, and it
\* cannot go on forever.
C17_Terminates ==
    /\ [](Len(pulled) <= MaxTagEvents + 1)
    /\ [](pass = 2 => ReaderEvents(emitted) = pulled \o ReaderEvents(replay))
    /\ (phase \in {"root", "body"}) ~> (phase = "done")

\* parse returned on the last event of the longest stream.
C17_Witness ==
    /\ pass = 1
    /\ phase = "done"
    /\ Len(pulled) = MaxTagEvents + 1
    /\ Last(pulled) = EndDocument
    /\ result = CannotParse

-----------------------------------------------------------------------------
(* The end of the root.                                                    *)

\* Event i of evs is the end tag that closes the root: the root alone is
\* open before it, and it has the root's name.
ClosesRoot(evs, i) ==
    /\ evs[i].type = "EndElement"
    /\ LET open == OpenAfter(evs, i - 1)
       IN  /\ Len(open) = 1
           /\ evs[i].name.local_name = evs[open[1]].name.local_name

\* C18: parse stops at the end tag that closes the root: with that event
\* read it has returned Ok of the root, and it reads no event after it,
\* whatever the stream holds next.
C18_StopsAtRootEnd ==
    \A i \in 1..Len(pulled) :
        ClosesRoot(pulled, i) =>
            /\ i = Len(pulled)
            /\ phase = "done"
            /\ result.kind = "Ok"
            /\ result.elem.name = pulled[i].name.local_name
            /\ pass = 2 => replay = <<>>

\* The root is closed, the tree has been written, and the stream had more
\* to deliver: a second root, text, or its end.
C18_Witness ==
    /\ pass = 1
    /\ Len(pulled) = 4
    /\ ClosesRoot(pulled, 4)
    /\ wresult = WriteOk
    /\ \E ev \in Tokenizer(pulled) : ev.type = "StartElement"
    /\ EndDocument \in Tokenizer(pulled)

-----------------------------------------------------------------------------
(* The nesting of what write emits.                                        *)

\* C19: whatever calls built the tree, the events write emits are
\* well-nested: every EndElement closes the innermost open StartElement and
\* carries its composed name, a completed write leaves no element open, and
\* the builder, fed the emitted events, never returns CannotParse: it
\* returns Ok once the write is complete.
C19_WellNested ==
    op.name = "write" =>
        LET fed == parse(ReaderEvents(emitted))
        IN  /\ \A i \in 1..Len(emitted) :
                  emitted[i].type = "EndElement" =>
                      LET open == OpenAfter(emitted, i - 1)
                      IN  /\ open # <<>>
                          /\ emitted[i].name = Some(emitted[Last(open)].name)
            /\ fed.result.kind # "CannotParse"
            /\ wresult = WriteOk =>
                  /\ OpenAfter(emitted, Len(emitted)) = <<>>
                  /\ fed.result.kind = "Ok"
                  /\ SameShape(fed.result.elem, before)

\* A written tree three levels deep, with prefixed and unprefixed names,
\* text and an attribute set through get_mut_child.
C19_Witness ==
    /\ op.name = "write"
    /\ wresult = WriteOk
    /\ before.text # None
    /\ Len(before.children) = 1
    /\ before.children[1].prefix = Some("p")
    /\ DOMAIN before.children[1].attributes # {}
    /\ Len(before.children[1].children) = 2
    /\ Len(emitted) = 9

-----------------------------------------------------------------------------
(* take_child against get_child.                                           *)

\* C20: take_child(k) returns an element exactly when get_child(k), called
\* in its place, would, and it is the element get_child would have referred
\* to; a successful take_child shortens children by one.  On a parent with
\* n children named k, take_child(k) called again and again returns them in
\* child order, and the call after the n-th returns none.
C20_TakeAgreesWithGet ==
    op.name = "take_child" =>
        LET g == get_child(before, op.k)
            named == Ascending(Named(run.start.children, run.k))
        IN  /\ (ret # None) <=> (g # None)
            /\ g # None =>
                  /\ ret = Some(before.children[g[1]])
                  /\ Len(tree.children) = Len(before.children) - 1
            /\ g = None => tree.children = before.children
            /\ run.k = op.k
            /\ run.got # <<>>
            /\ \A j \in 1..Len(run.got) :
                  run.got[j] = (IF j <= Len(named)
                                THEN Some(run.start.children[named[j]])
                                ELSE None)

\* Children [p:b, a, p:b], the first b with an attribute: three calls of
\* take_child("b") return the first b, the second b and none, and leave [a].
C20_Witness ==
    /\ op = [name |-> "take_child", k |-> "b"]
    /\ NamesOf(run.start.children) = <<"b", "a", "b">>
    /\ run.start.children[1] # run.start.children[3]
    /\ run.got = <<Some(run.start.children[1]), Some(run.start.children[3]), None>>
    /\ ret = None
    /\ NamesOf(tree.children) = <<"a">>
====
